---- MODULE Spec2Model ----
(***************************************************************************)
(* Mental-health treatment predictor: the feature encoding shared by the   *)
(* fitting pipeline (backend/ml/train_model.py) and the serving pipeline   *)
(* (backend/app/predict.py), the artifact store both go through, and the   *)
(* singleton that loads it.                                                *)
(*                                                                         *)
(* Conventions.  A data frame column name is a tuple: <<"Age">> is the raw *)
(* column Age, <<"Gender", "Male">> is the indicator column Gender_Male    *)
(* (prefix + "_" + category, as pandas.get_dummies names it).  A missing   *)
(* value (NaN) is the string NaN.  Python's string order on category       *)
(* labels is given by the list LexOrder.                                   *)
(***************************************************************************)
EXTENDS Integers, Sequences, FiniteSets, TLC

VARIABLES
    store,        \* artifact directory: blob name -> blob written there
    trainer,      \* the fitting process: position, run number, corpus
    instance,     \* PredictionService._instance and the attributes loaded on it
    threads,      \* position of each thread constructing PredictionService
    loads,        \* how many times _load_model has been entered
    input_data,   \* the record handed to preprocess_input
    result,       \* what the last preprocess_input call produced
    response,     \* what the last predict or get_feature_importance call returned
    listing,      \* the order in which the caller's mapping lists its fields
    served,       \* for the properties: one earlier predict call, its record and its return
    pipeline      \* the steps the fitting run has executed in memory, and their effects

vars == <<store, trainer, instance, threads, loads, input_data, result, response, listing, served, pipeline>>

(***************************************************************************)
(* Bounds of the model                                                     *)
(***************************************************************************)
\* number of fields in which a composed record may differ from the example
MaxEdits == 1
\* number of threads that construct PredictionService
NumThreads == 2
\* number of fitting runs a behaviour may start
MaxRuns == 2
\* number of fields a caller may list out of the schema's order
MaxMoves == 2

(***************************************************************************)
(* Generic helpers                                                         *)
(***************************************************************************)
NaN == "nan"

Range(s) == {s[i] : i \in DOMAIN s}

\* list.index / LabelEncoder's value -> position table, 0-based as in Python
IndexOf(s, v) == (CHOOSE i \in DOMAIN s : s[i] = v) - 1

\* Python's order on the category labels that occur in the model
LexOrder ==
    << "Agender", "Australia", "Brazil", "Canada", "Don't know", "Female",
       "France", "Germany", "India", "Ireland", "Large", "Male", "Maybe",
       "Medium", "Netherlands", "New Zealand", "No", "Non-binary", "Not sure",
       "Other", "Poland", "Small", "Some of them", "Transgender",
       "United Kingdom", "United States", "Very Large", "Wakanda", "Yes" >>

\* sorted(S) for a set of labels
Sorted(S) == SelectSeq(LexOrder, LAMBDA x : x \in S)

(***************************************************************************)
(* Feature types: the literals of predict.py 74-89 and train_model.py      *)
(* 60-78 (the two copies are the same text)                                *)
(***************************************************************************)
ordinal_features ==
    [ work_interfere |-> << "Never", "Rarely", "Sometimes", "Often" >>,
      leave          |-> << "Very easy", "Somewhat easy", "Don't know",
                            "Somewhat difficult", "Very difficult" >>,
      no_employees   |-> << "1-5", "6-25", "26-100", "100-500", "500-1000",
                            "More than 1000" >>,
      age_group      |-> << "18-25", "26-35", "36-45", "46+" >> ]

\* iteration order of the ordinal_features dict
ordinal_names == << "work_interfere", "leave", "no_employees", "age_group" >>

binary_features ==
    << "self_employed", "family_history", "remote_work", "tech_company",
       "seek_help", "anonymity", "mental_health_consequence",
       "phys_health_consequence", "obs_consequence" >>

three_way_features == << "benefits", "care_options", "wellness_program" >>

nominal_features ==
    << "Gender", "Country", "coworkers", "supervisor",
       "mental_health_interview", "phys_health_interview",
       "mental_vs_physical", "company_size_category" >>

\* number of most frequent categories a nominal field keeps at fit time
TopN == 10

(***************************************************************************)
(* Derived features at serve time (predict.py 58-71)                       *)
(***************************************************************************)
\* pd.cut(Age, bins=[0, 25, 35, 45, 100], labels=[...]): right-closed bins
age_group_of(age) ==
    IF 0 < age /\ age <= 25 THEN "18-25"
    ELSE IF 25 < age /\ age <= 35 THEN "26-35"
    ELSE IF 35 < age /\ age <= 45 THEN "36-45"
    ELSE IF 45 < age /\ age <= 100 THEN "46+"
    ELSE NaN

size_mapping ==
    [ x \in { "1-5", "6-25", "26-100", "100-500", "500-1000", "More than 1000" } |->
        CASE x \in { "1-5", "6-25" }        -> "Small"
          [] x = "26-100"                    -> "Medium"
          [] x \in { "100-500", "500-1000" } -> "Large"
          [] OTHER                           -> "Very Large" ]

\* Series.map(size_mapping): a value that is no key becomes NaN
company_size_of(v) == IF v \in DOMAIN size_mapping THEN size_mapping[v] ELSE NaN

(***************************************************************************)
(* Derived features of the corpus (DataProcessor.create_derived_features,  *)
(* data_processing.py 209-231)                                             *)
(***************************************************************************)
\* corpus_age_group_of with a slip: the bins are closed on the left
\* (right=False)
corpus_age_group_left_closed(age) ==
    IF 0 <= age /\ age < 25 THEN "18-25"
    ELSE IF 25 <= age /\ age < 35 THEN "26-35"
    ELSE IF 35 <= age /\ age < 45 THEN "36-45"
    ELSE IF 45 <= age /\ age < 100 THEN "46+"
    ELSE NaN

\* lines 214-216, pd.cut(self.df['Age'], bins=[0, 25, 35, 45, 100],
\* labels=[...]): right-closed bins
corpus_age_group_of(age) ==
    IF 0 < age /\ age <= 25 THEN "18-25"
    ELSE IF 25 < age /\ age <= 35 THEN "26-35"
    ELSE IF 35 < age /\ age <= 45 THEN "36-45"
    ELSE IF 45 < age /\ age <= 100 THEN "46+"
    ELSE NaN

\* lines 219-226
corpus_size_mapping ==
    ("1-5" :> "Small") @@ ("6-25" :> "Small") @@ ("26-100" :> "Medium")
        @@ ("100-500" :> "Large") @@ ("500-1000" :> "Large")
        @@ ("More than 1000" :> "Very Large")

\* line 227, self.df['no_employees'].map(size_mapping)
corpus_company_size_of(v) ==
    IF v \in DOMAIN corpus_size_mapping THEN corpus_size_mapping[v] ELSE NaN

(***************************************************************************)
(* pandas.get_dummies(column, prefix, drop_first) on a column whose        *)
(* distinct non-missing values are `levels`: one indicator column per      *)
(* level in sorted order, the first of them left out under drop_first.     *)
(***************************************************************************)
get_dummies(levels, drop_first) ==
    LET s == Sorted(levels \ {NaN})
    IN  IF drop_first /\ s # << >> THEN Tail(s) ELSE s

(***************************************************************************)
(* The labelled corpus (processed_survey.csv).  A corpus is given by its   *)
(* value counts: for every categorical column, how many rows carry each    *)
(* value.  Corpus1 has more than TopN countries, Corpus2 is a small survey *)
(* in which some categories never occur.                                   *)
(***************************************************************************)
Corpus1 ==
    [ Gender |-> ("Male" :> 990) @@ ("Female" :> 247) @@ ("Other" :> 10)
                 @@ ("Transgender" :> 5) @@ ("Non-binary" :> 4),
      Country |-> ("United States" :> 751) @@ ("United Kingdom" :> 185)
                 @@ ("Canada" :> 72) @@ ("Germany" :> 45) @@ ("Netherlands" :> 27)
                 @@ ("Ireland" :> 26) @@ ("Australia" :> 21) @@ ("France" :> 13)
                 @@ ("India" :> 10) @@ ("New Zealand" :> 8) @@ ("Poland" :> 7)
                 @@ ("Brazil" :> 6),
      coworkers |-> ("No" :> 260) @@ ("Some of them" :> 774) @@ ("Yes" :> 225),
      supervisor |-> ("No" :> 393) @@ ("Some of them" :> 350) @@ ("Yes" :> 516),
      mental_health_interview |-> ("Maybe" :> 207) @@ ("No" :> 1008) @@ ("Yes" :> 44),
      phys_health_interview |-> ("Maybe" :> 557) @@ ("No" :> 500) @@ ("Yes" :> 202),
      mental_vs_physical |-> ("Don't know" :> 576) @@ ("No" :> 340) @@ ("Yes" :> 343),
      no_employees |-> ("1-5" :> 162) @@ ("6-25" :> 290) @@ ("26-100" :> 289)
                 @@ ("100-500" :> 176) @@ ("500-1000" :> 60)
                 @@ ("More than 1000" :> 282),
      benefits |-> ("Don't know" :> 408) @@ ("No" :> 374) @@ ("Yes" :> 477),
      care_options |-> ("Don't know" :> 314) @@ ("No" :> 501) @@ ("Yes" :> 444),
      wellness_program |-> ("Don't know" :> 188) @@ ("No" :> 842) @@ ("Yes" :> 229) ]

Corpus2 ==
    [ Gender |-> ("Male" :> 40) @@ ("Female" :> 20),
      Country |-> ("United States" :> 30) @@ ("United Kingdom" :> 20)
                 @@ ("Canada" :> 10),
      coworkers |-> ("No" :> 25) @@ ("Yes" :> 35),
      supervisor |-> ("No" :> 20) @@ ("Some of them" :> 15) @@ ("Yes" :> 25),
      mental_health_interview |-> ("Maybe" :> 10) @@ ("No" :> 50),
      phys_health_interview |-> ("Maybe" :> 30) @@ ("No" :> 20) @@ ("Yes" :> 10),
      mental_vs_physical |-> ("Don't know" :> 30) @@ ("No" :> 10) @@ ("Yes" :> 20),
      no_employees |-> ("1-5" :> 10) @@ ("6-25" :> 30) @@ ("26-100" :> 20),
      benefits |-> ("Don't know" :> 20) @@ ("No" :> 15) @@ ("Yes" :> 25),
      care_options |-> ("Don't know" :> 10) @@ ("No" :> 30) @@ ("Yes" :> 20),
      wellness_program |-> ("No" :> 35) @@ ("Yes" :> 25) ]

Corpora == << Corpus1, Corpus2 >>

\* the columns of the corpus that prepare_features keeps, in file order
\* (the survey's columns, then the two derived ones)
feature_cols ==
    << "Age", "Gender", "Country", "self_employed", "family_history",
       "work_interfere", "no_employees", "remote_work", "tech_company",
       "benefits", "care_options", "wellness_program", "seek_help",
       "anonymity", "leave", "mental_health_consequence",
       "phys_health_consequence", "coworkers", "supervisor",
       "mental_health_interview", "phys_health_interview",
       "mental_vs_physical", "obs_consequence", "age_group",
       "company_size_category" >>

\* Series.value_counts() of one column of the corpus; company_size_category
\* is no_employees seen through size_mapping (create_derived_features)
value_counts(corpus, feat) ==
    IF feat = "company_size_category"
    THEN LET ne == corpus["no_employees"]
             n(v) == IF v \in DOMAIN ne THEN ne[v] ELSE 0
             all == ("Small" :> n("1-5") + n("6-25")) @@ ("Medium" :> n("26-100"))
                    @@ ("Large" :> n("100-500") + n("500-1000"))
                    @@ ("Very Large" :> n("More than 1000"))
         IN  [ v \in { w \in DOMAIN all : all[w] > 0 } |-> all[v] ]
    ELSE corpus[feat]

(***************************************************************************)
(* ModelTrainer.prepare_features (train_model.py 49-130)                   *)
(***************************************************************************)
\* value_counts().head(10).index: the TopN most frequent values
top_cats(corpus, feat) ==
    LET vc == value_counts(corpus, feat)
    IN  { v \in DOMAIN vc : Cardinality({ w \in DOMAIN vc : vc[w] > vc[v] }) < TopN }

\* lambda x: x if x in top_cats else 'Other'
group_rare(corpus, feat, x) == IF x \in top_cats(corpus, feat) THEN x ELSE "Other"

\* fit_three_way_levels with a slip: the first category is dropped
fit_three_way_levels_drop_first(corpus, feat) ==
    get_dummies(DOMAIN value_counts(corpus, feat), TRUE)

\* the indicator columns get_dummies appends for a three-way field
fit_three_way_levels(corpus, feat) ==
    get_dummies(DOMAIN value_counts(corpus, feat), FALSE)

\* the indicator columns get_dummies appends for a nominal field, after grouping
fit_nominal_levels(corpus, feat) ==
    get_dummies({ group_rare(corpus, feat, v) : v \in DOMAIN value_counts(corpus, feat) },
                TRUE)

Prefixed(feat, levels) == [ i \in 1..Len(levels) |-> << feat, levels[i] >> ]

RECURSIVE dummy_columns(_, _, _)
\* pd.concat of the dummies of feats[1], feats[2], ... in that order
dummy_columns(corpus, feats, nominal) ==
    IF feats = << >> THEN << >>
    ELSE Prefixed(Head(feats),
                  IF nominal THEN fit_nominal_levels(corpus, Head(feats))
                             ELSE fit_three_way_levels(corpus, Head(feats)))
         \o dummy_columns(corpus, Tail(feats), nominal)

\* X.columns.tolist(): the raw columns left after the drops, then the dummies
fit_feature_names(corpus) ==
    LET dropped == Range(three_way_features) \cup Range(nominal_features)
        raw == SelectSeq(feature_cols, LAMBDA f : f \notin dropped)
    IN  [ i \in 1..Len(raw) |-> << raw[i] >> ]
        \o dummy_columns(corpus, three_way_features, FALSE)
        \o dummy_columns(corpus, nominal_features, TRUE)

\* self.label_encoders: one LabelEncoder per ordinal column, classes_ = order
fit_label_encoders == ordinal_features

\* a raw record as a row of the corpus: the derived columns added by
\* DataProcessor.create_derived_features
corpus_row(rec) ==
    [ f \in DOMAIN rec \cup { "age_group", "company_size_category" } |->
        IF f = "age_group" THEN corpus_age_group_of(rec["Age"])
        ELSE IF f = "company_size_category" THEN corpus_company_size_of(rec["no_employees"])
        ELSE rec[f] ]

\* the value prepare_features puts in column `name` of the row of `rec`
fit_cell(corpus, row, name) ==
    LET f == name[1]
    IN  IF Len(name) = 2
        THEN IF f \in Range(three_way_features)
             THEN IF row[f] = name[2] THEN 1 ELSE 0
             ELSE IF group_rare(corpus, f, row[f]) = name[2] THEN 1 ELSE 0
        ELSE IF f \in DOMAIN ordinal_features
        THEN LET order == ordinal_features[f]
                 x == IF row[f] \in Range(order) THEN row[f]
                      ELSE order[(Len(order) \div 2) + 1]
             IN  IndexOf(fit_label_encoders[f], x)
        ELSE IF f \in Range(binary_features)
        THEN IF row[f] = "Yes" THEN 1 ELSE 0
        ELSE row[f]

\* the row of the training matrix X for one record of the corpus
prepare_features_row(corpus, rec) ==
    LET names == fit_feature_names(corpus)
        row == corpus_row(rec)
    IN  [ i \in 1..Len(names) |-> fit_cell(corpus, row, names[i]) ]

(***************************************************************************)
(* StandardScaler (train_model.py 151-153, predict.py 136).  The fitted    *)
(* means and deviations are statistics of the training split; the model    *)
(* takes them as given numbers of the run.  Scaled values are fixed-point, *)
(* 100 units to 1.                                                         *)
(***************************************************************************)
\* StandardScaler.fit: one mean and one scale per column of the matrix
scaler_fit(names, run) ==
    [ n_features_in |-> Len(names),
      mean  |-> [ i \in 1..Len(names) |-> IF names[i] = << "Age" >> THEN 32 ELSE run - 1 ],
      scale |-> [ i \in 1..Len(names) |-> IF names[i] = << "Age" >> THEN 7 ELSE 2 ] ]

\* StandardScaler.transform: (x - mean) / scale, column by column
scaler_transform(scaler, X) ==
    [ i \in 1..Len(X) |-> ((X[i] - scaler.mean[i]) * 100) \div scaler.scale[i] ]

(***************************************************************************)
(* PredictionService.preprocess_input (predict.py 45-138).  The one-row    *)
(* data frame df is a function from column names to the row's values.      *)
(***************************************************************************)
\* pd.DataFrame([input_data])
DataFrame(rec) == [ n \in { << f >> : f \in DOMAIN rec } |-> rec[n[1]] ]

\* df[col] = value (adds the column or overwrites it)
assign(df, col, value) == (col :> value) @@ df

\* df.drop(col, axis=1)
drop(df, col) == [ n \in DOMAIN df \ { col } |-> df[n] ]

\* lines 58-71: the derived columns
serve_derived(df) ==
    assign(assign(df, << "age_group" >>, age_group_of(df[<< "Age" >>])),
           << "company_size_category" >>, company_size_of(df[<< "no_employees" >>]))

\* serve_ordinal_one with a slip: a value outside the order becomes 0
serve_ordinal_one_unknown_zero(df, encoders, feat) ==
    LET order == ordinal_features[feat]
        val == df[<< feat >>]
    IN  IF << feat >> \in DOMAIN df /\ feat \in DOMAIN encoders
        THEN assign(df, << feat >>,
                    IF val \in Range(order) THEN IndexOf(encoders[feat], val) ELSE 0)
        ELSE df

\* serve_ordinal_one with the middle index given to an absent column too
serve_ordinal_one_absent_middle(df, encoders, feat) ==
    LET order == ordinal_features[feat]
        val == df[<< feat >>]
    IN  IF << feat >> \in DOMAIN df /\ feat \in DOMAIN encoders
        THEN assign(df, << feat >>,
                    IF val \in Range(order) THEN IndexOf(encoders[feat], val)
                    ELSE Len(order) \div 2)
        ELSE assign(df, << feat >>, Len(order) \div 2)

\* lines 93-102, one ordinal field: the saved encoder's index of a value of
\* the order, the middle index for any other value
serve_ordinal_one(df, encoders, feat) ==
    LET order == ordinal_features[feat]
        val == df[<< feat >>]
    IN  IF << feat >> \in DOMAIN df /\ feat \in DOMAIN encoders
        THEN assign(df, << feat >>,
                    IF val \in Range(order) THEN IndexOf(encoders[feat], val)
                    ELSE Len(order) \div 2)
        ELSE df

RECURSIVE serve_ordinal(_, _, _)
\* lines 91-102: the loop over ordinal_features
serve_ordinal(df, encoders, feats) ==
    IF feats = << >> THEN df
    ELSE serve_ordinal(serve_ordinal_one(df, encoders, Head(feats)), encoders, Tail(feats))

\* serve_binary with a slip: every value but 'No' counts as 1
serve_binary_not_no(df) ==
    [ n \in DOMAIN df |->
        IF Len(n) = 1 /\ n[1] \in Range(binary_features)
        THEN IF df[n] = "No" THEN 0 ELSE 1
        ELSE df[n] ]

\* lines 104-107: every binary column present becomes (value == 'Yes')
serve_binary(df) ==
    [ n \in DOMAIN df |->
        IF Len(n) = 1 /\ n[1] \in Range(binary_features)
        THEN IF df[n] = "Yes" THEN 1 ELSE 0
        ELSE df[n] ]

\* lines 112-114 and 123-125, one field: get_dummies of the one-row column,
\* concatenated to df, the raw column dropped
serve_dummies_one(df, feat, drop_first) ==
    IF << feat >> \in DOMAIN df
    THEN LET val == df[<< feat >>]
             levels == get_dummies({ val }, drop_first)
             dummies == [ n \in { << feat, levels[i] >> : i \in 1..Len(levels) } |->
                            IF n[2] = val THEN 1 ELSE 0 ]
         IN  drop(df, << feat >>) @@ dummies
    ELSE df

RECURSIVE serve_dummies(_, _, _)
\* lines 109-125: the loops over three_way_features and nominal_features
serve_dummies(df, feats, drop_first) ==
    IF feats = << >> THEN df
    ELSE serve_dummies(serve_dummies_one(df, Head(feats), drop_first), Tail(feats), drop_first)

\* lines 55-125: the encoded columns of the record, before alignment
serve_columns(rec, encoders) ==
    serve_dummies(
        serve_dummies(
            serve_binary(serve_ordinal(serve_derived(DataFrame(rec)), encoders, ordinal_names)),
            three_way_features, FALSE),
        nominal_features, TRUE)

\* align with a slip: the columns the record did not produce are left out
align_skipping_missing(df, feature_names) ==
    LET present == SelectSeq(feature_names, LAMBDA n : n \in DOMAIN df)
    IN  [ i \in 1..Len(present) |-> df[present[i]] ]

\* align with a slip: the columns the record did not produce are filled with 1
align_fill_one(df, feature_names) ==
    [ i \in 1..Len(feature_names) |->
        IF feature_names[i] \in DOMAIN df THEN df[feature_names[i]] ELSE 1 ]

\* align with a slip: the columns the record did not produce are filled with -1
align_fill_minus_one(df, feature_names) ==
    [ i \in 1..Len(feature_names) |->
        IF feature_names[i] \in DOMAIN df THEN df[feature_names[i]] ELSE 0 - 1 ]

\* lines 127-133: every expected column that is missing is added as 0, then
\* the columns are selected in the order of feature_names
align(df, feature_names) ==
    [ i \in 1..Len(feature_names) |->
        IF feature_names[i] \in DOMAIN df THEN df[feature_names[i]] ELSE 0 ]

\* the whole call on an instance whose attributes are `self`: KeyError when
\* a column the derived features read is absent (lines 59, 71), ValueError
\* from scaler.transform when the column count is not the fitted one (136)
preprocess_input(self, rec) ==
    IF "Age" \notin DOMAIN rec \/ "no_employees" \notin DOMAIN rec
    THEN [ out |-> "KeyError", X |-> << >>, X_scaled |-> << >> ]
    ELSE LET X == align(serve_columns(rec, self.label_encoders), self.feature_names)
         IN  IF Len(X) # self.scaler.n_features_in
             THEN [ out |-> "ValueError", X |-> X, X_scaled |-> << >> ]
             ELSE [ out |-> "ok", X |-> X,
                    X_scaled |-> scaler_transform(self.scaler, X) ]

(***************************************************************************)
(* The column index of the one-row frame.  A Python dict lists its keys in *)
(* insertion order and pd.DataFrame([input_data]) takes its columns in     *)
(* that order; the steps of preprocess_input then change df.columns as     *)
(* below, the row's values being those of the operators above.             *)
(***************************************************************************)
\* pd.DataFrame([input_data]).columns for a mapping that lists its fields
\* in the order `order`
listed_columns(rec, order) ==
    LET present == SelectSeq(order, LAMBDA f : f \in DOMAIN rec)
    IN  [ i \in 1..Len(present) |-> << present[i] >> ]

\* df[col] = value: a column that is new goes last
columns_assign(cols, col) == IF col \in Range(cols) THEN cols ELSE Append(cols, col)

\* lines 59 and 71
columns_derived(cols) ==
    columns_assign(columns_assign(cols, << "age_group" >>), << "company_size_category" >>)

RECURSIVE columns_dummies(_, _, _, _)
\* lines 110-114 and 117-125: pd.concat puts the dummies of a field last,
\* df.drop takes the raw column out; df holds the values the loops read
columns_dummies(cols, df, feats, drop_first) ==
    IF feats = << >> THEN cols
    ELSE LET feat == Head(feats)
             after == IF << feat >> \in Range(cols)
                      THEN SelectSeq(cols, LAMBDA n : n # << feat >>)
                           \o Prefixed(feat, get_dummies({ df[<< feat >>] }, drop_first))
                      ELSE cols
         IN  columns_dummies(after, df, Tail(feats), drop_first)

\* lines 128-130: every expected column that is missing is added, last
columns_fill(cols, feature_names) ==
    cols \o SelectSeq(feature_names, LAMBDA n : n \notin Range(cols))

\* df.columns when line 133 is reached
columns_of(rec, order, encoders, feature_names) ==
    LET df == serve_binary(serve_ordinal(serve_derived(DataFrame(rec)), encoders,
                                         ordinal_names))
    IN  columns_fill(
            columns_dummies(
                columns_dummies(columns_derived(listed_columns(rec, order)),
                                df, three_way_features, FALSE),
                df, nominal_features, TRUE),
            feature_names)

\* lines 128-130 on the row: the value of every column added there is 0
fill(df, feature_names) ==
    [ n \in DOMAIN df \cup Range(feature_names) |-> IF n \in DOMAIN df THEN df[n] ELSE 0 ]

\* select with a slip: the first len(feature_names) columns of df.values,
\* taken by position
select_by_position(cols, df, feature_names) ==
    [ i \in 1..Len(feature_names) |-> df[cols[i]] ]

\* line 133, df[self._feature_names].values: the columns are looked up by
\* name, whatever their position in df.columns
select(cols, df, feature_names) ==
    [ i \in 1..Len(feature_names) |-> df[feature_names[i]] ]

\* preprocess_input on a mapping that lists its fields in the order `order`
preprocess_listed(self, rec, order) ==
    IF "Age" \notin DOMAIN rec \/ "no_employees" \notin DOMAIN rec
    THEN [ out |-> "KeyError", X |-> << >>, X_scaled |-> << >> ]
    ELSE LET cols == columns_of(rec, order, self.label_encoders, self.feature_names)
             df == fill(serve_columns(rec, self.label_encoders), self.feature_names)
             X == select(cols, df, self.feature_names)
         IN  IF Len(X) # self.scaler.n_features_in
             THEN [ out |-> "ValueError", X |-> X, X_scaled |-> << >> ]
             ELSE [ out |-> "ok", X |-> X,
                    X_scaled |-> scaler_transform(self.scaler, X) ]

(***************************************************************************)
(* The fitted objects of one run of ModelTrainer (train_model.py 354-367   *)
(* up to save_artifacts).  The scorer is opaque: what the model keeps of   *)
(* it is its column count and its feature_importances_, taken as given     *)
(* numbers of the run (fixed-point, 100 units to 1).                       *)
(***************************************************************************)
\* self.feature_names of a run, by corpus
fit_names == [ c \in DOMAIN Corpora |-> fit_feature_names(Corpora[c]) ]

trained_model(names, run) ==
    [ n_features |-> Len(names),
      feature_importances |-> [ i \in 1..Len(names) |-> ((i * 3 + run) % 5) * 2 ] ]

(***************************************************************************)
(* ModelExplainer (explainer.py 37-77)                                     *)
(***************************************************************************)
\* sorted_by_importance with a slip: items of equal importance are reversed
sorted_by_importance_unstable(items) ==
    LET n == Len(items)
        pos == [ i \in 1..n |->
                  1 + Cardinality({ j \in 1..n : items[j].importance > items[i].importance })
                    + Cardinality({ j \in (i + 1)..n :
                                      items[j].importance = items[i].importance }) ]
    IN  [ k \in 1..n |-> items[CHOOSE i \in 1..n : pos[i] = k] ]

\* sorted(items, key=importance, reverse=True): Python's sort is stable, so
\* items of equal importance keep their order
sorted_by_importance(items) ==
    LET n == Len(items)
        pos == [ i \in 1..n |->
                  1 + Cardinality({ j \in 1..n : items[j].importance > items[i].importance })
                    + Cardinality({ j \in 1..(i - 1) :
                                      items[j].importance = items[i].importance }) ]
    IN  [ k \in 1..n |-> items[CHOOSE i \in 1..n : pos[i] = k] ]

Min(a, b) == IF a < b THEN a ELSE b

\* compute_feature_importance: zip(feature_names, importances), sort, rank
compute_feature_importance(model, feature_names) ==
    LET n == Min(Len(feature_names), Len(model.feature_importances))
        items == [ i \in 1..n |-> [ feature |-> feature_names[i],
                                    importance |-> model.feature_importances[i] ] ]
        ranked == sorted_by_importance(items)
    IN  [ k \in 1..n |-> [ feature |-> ranked[k].feature,
                           importance |-> ranked[k].importance,
                           rank |-> k ] ]

\* the ranking for the model of run r over corpus c and the feature names
\* of corpus d, computed once
importance_table ==
    [ c \in DOMAIN Corpora, r \in 1..MaxRuns, d \in DOMAIN Corpora |->
        compute_feature_importance(trained_model(fit_names[c], r), fit_names[d]) ]

(***************************************************************************)
(* The artifact store (config.py 18-22, train_model.py 330).  A blob       *)
(* stands for what joblib.dump wrote: it names the fitting run and the     *)
(* corpus the dumped object was fitted on, and the object is read off it   *)
(* by the operators below.  `runs`, the runs a blob's contents come from,  *)
(* is kept for the record only: the files carry no such mark.              *)
(***************************************************************************)
BlobNames == { "model", "scaler", "feature_names", "label_encoders", "explainer", "metrics" }

NoBlob == [ runs |-> {} ]

Blob(corpus_id, run) == [ runs |-> { run }, corpus |-> corpus_id, run |-> run ]

Present(b) == b.runs # {}

EmptyStore == [ n \in BlobNames |-> NoBlob ]

\* the object joblib.load returns for the blob at each path
model_of(b) == trained_model(fit_names[b.corpus], b.run)

scaler_of(b) == scaler_fit(fit_names[b.corpus], b.run)

feature_names_of(b) == fit_names[b.corpus]

label_encoders_of(b) == fit_label_encoders

metrics_of(b) ==
    [ test_roc_auc |-> 80 + b.run, test_f1 |-> 75 + b.run,
      cv_roc_auc_mean |-> 79 + b.run, cv_roc_auc_std |-> 2 ]

explainer_data_of(b) ==
    [ feature_importance |-> importance_table[b.model.corpus, b.model.run, b.names.corpus],
      feature_names |-> fit_names[b.names.corpus] ]

\* the five objects save_artifacts dumps, by blob name
fitted(corpus_id, run) ==
    [ n \in { "model", "scaler", "feature_names", "label_encoders", "metrics" } |->
        Blob(corpus_id, run) ]

\* the order in which save_artifacts writes (train_model.py 314-331)
save_order == << "model", "scaler", "feature_names", "label_encoders", "metrics" >>

\* save_explainer_data: the explainer_data dict dumped to EXPLAINER_PATH
explainer_blob(model_blob, names_blob) ==
    [ runs |-> model_blob.runs \cup names_blob.runs,
      model |-> model_blob, names |-> names_blob ]

\* a store written completely by run `run` over corpus `corpus_id`, its
\* explainer data computed from it
complete_store(corpus_id, run) ==
    LET f == fitted(corpus_id, run)
    IN  [ n \in BlobNames |->
            IF n = "explainer" THEN explainer_blob(f["model"], f["feature_names"]) ELSE f[n] ]

\* the attributes of a loaded PredictionService object, as objects
attributes(obj) ==
    [ model |-> model_of(obj["model"]),
      scaler |-> scaler_of(obj["scaler"]),
      feature_names |-> feature_names_of(obj["feature_names"]),
      label_encoders |-> label_encoders_of(obj["label_encoders"]),
      explainer_data |-> explainer_data_of(obj["explainer"]) ]

(***************************************************************************)
(* The scorer (XGBClassifier).  It is opaque: for a row it yields the      *)
(* probability of class 1, here a level picked by the row and the fitted   *)
(* weights.  Probabilities are fixed-point, 100 units to 1.                *)
(***************************************************************************)
ProbaLevels == << 5, 25, 40, 45, 50, 55, 60, 70, 75, 90 >>

RECURSIVE dot(_, _)
dot(w, x) ==
    IF w = << >> \/ x = << >> THEN 0
    ELSE Head(w) * Head(x) + dot(Tail(w), Tail(x))

\* model_predict_proba with a slip: both entries hold p
model_predict_proba_same(model, X) ==
    LET p == ProbaLevels[(dot(model.feature_importances, X) % Len(ProbaLevels)) + 1]
    IN  << p, p >>

\* model.predict_proba(X)[0]: the pair (1 - p, p)
model_predict_proba(model, X) ==
    LET p == ProbaLevels[(dot(model.feature_importances, X) % Len(ProbaLevels)) + 1]
    IN  << 100 - p, p >>

\* model.predict(X)[0]: class 1 when p exceeds one half
model_predict(model, X) == IF model_predict_proba(model, X)[2] > 50 THEN 1 ELSE 0

(***************************************************************************)
(* PredictionService.predict (predict.py 140-198) and                      *)
(* ModelExplainer.explain_prediction (explainer.py 91-155).  Impacts are   *)
(* fixed-point products of a scaled value and an importance.               *)
(***************************************************************************)
Max(a, b) == IF a > b THEN a ELSE b

Abs(a) == IF a < 0 THEN 0 - a ELSE a

\* confidence_predict with a slip: the thresholds are inclusive
confidence_predict_inclusive(max_prob) ==
    IF max_prob >= 75 THEN "High"
    ELSE IF max_prob >= 60 THEN "Medium"
    ELSE "Low"

\* predict.py 158-164: the if / elif / else on max_prob
confidence_predict(max_prob) ==
    IF max_prob > 75 THEN "High"
    ELSE IF max_prob > 60 THEN "Medium"
    ELSE "Low"

\* explainer.py 135: the nested conditional expression
confidence_explain(max_prob) ==
    IF max_prob > 75 THEN "High" ELSE (IF max_prob > 60 THEN "Medium" ELSE "Low")

\* contributions_of with a slip: an impact of 0 is reported as positive
contributions_of_zero_positive(feature_importance, feature_names, feature_values) ==
    [ k \in 1..Len(feature_importance) |->
        LET feat_info == feature_importance[k]
            feat_idx == IndexOf(feature_names, feat_info.feature)
            feat_val == feature_values[feat_idx + 1]
            impact_score == feat_val * feat_info.importance
        IN  [ feature |-> feat_info.feature,
              impact |-> impact_score,
              direction |-> IF impact_score >= 0 THEN "positive" ELSE "negative" ] ]

\* predict.py 170-182 and explainer.py 114-129: one contribution per entry
\* of the global ranking, its impact the value at the feature's position in
\* feature_names times the feature's importance
contributions_of(feature_importance, feature_names, feature_values) ==
    [ k \in 1..Len(feature_importance) |->
        LET feat_info == feature_importance[k]
            feat_idx == IndexOf(feature_names, feat_info.feature)
            feat_val == feature_values[feat_idx + 1]
            impact_score == feat_val * feat_info.importance
        IN  [ feature |-> feat_info.feature,
              impact |-> impact_score,
              direction |-> IF impact_score > 0 THEN "positive" ELSE "negative" ] ]

\* insert_by_abs_impact with a slip: the order is ascending
insert_by_abs_impact_ascending(acc, x) ==
    LET k == Cardinality({ j \in 1..Len(acc) : Abs(acc[j].impact) <= Abs(x.impact) })
    IN  SubSeq(acc, 1, k) \o << x >> \o SubSeq(acc, k + 1, Len(acc))

\* one step of the sort: x, which came after every item of the sorted list
\* acc, goes behind the items whose |impact| is not smaller than its own
insert_by_abs_impact(acc, x) ==
    LET k == Cardinality({ j \in 1..Len(acc) : Abs(acc[j].impact) >= Abs(x.impact) })
    IN  SubSeq(acc, 1, k) \o << x >> \o SubSeq(acc, k + 1, Len(acc))

RECURSIVE sort_by_abs_impact_into(_, _)
\* acc is the sorted list of the first Len(acc) items
sort_by_abs_impact_into(acc, items) ==
    IF Len(acc) = Len(items) THEN acc
    ELSE sort_by_abs_impact_into(insert_by_abs_impact(acc, items[Len(acc) + 1]), items)

\* sorted_by_abs_impact with a slip: the sort is left out
sorted_by_abs_impact_left_out(items) == items

\* sorted(contributions, key=abs(impact), reverse=True): Python's sort is
\* stable, so items of equal |impact| keep their order
sorted_by_abs_impact(items) == sort_by_abs_impact_into(<< >>, items)

\* the default of explain_prediction's top_n, and the slice of predict.py 195
TopFactors == 5

\* what a call that raised returns to the properties
Raised(exc) ==
    [ out |-> exc, prediction |-> "", probability |-> [ No |-> 0, Yes |-> 0 ],
      confidence |-> "", top_factors |-> << >> ]

\* predict.py 153-198 on the row X that preprocess_input returned: the
\* scorer raises ValueError for a row of another width, list.index for a
\* ranked feature that is no feature name
predict_scored(self, X) ==
        IF Len(X) # self.model.n_features THEN Raised("ValueError")
        ELSE IF ~({ self.explainer_data.feature_importance[k].feature :
                       k \in DOMAIN self.explainer_data.feature_importance }
                     \subseteq Range(self.feature_names))
        THEN Raised("ValueError")
        ELSE LET prediction_proba == model_predict_proba(self.model, X)
                 prediction == model_predict(self.model, X)
                 max_prob == Max(prediction_proba[1], prediction_proba[2])
                 contributions ==
                     sorted_by_abs_impact(
                         contributions_of(self.explainer_data.feature_importance,
                                          self.feature_names, X))
             IN  [ out |-> "ok",
                   prediction |-> IF prediction = 1 THEN "Yes" ELSE "No",
                   probability |-> [ No |-> prediction_proba[1], Yes |-> prediction_proba[2] ],
                   confidence |-> confidence_predict(max_prob),
                   top_factors |-> SubSeq(contributions, 1, Min(TopFactors, Len(contributions))) ]

\* the whole call of predict on an instance whose attributes are `self`
predict(self, rec) ==
    LET pre == preprocess_input(self, rec)
    IN  IF pre.out # "ok" THEN Raised(pre.out) ELSE predict_scored(self, pre.X_scaled)

\* explain_prediction on a ModelExplainer whose attributes are `self`
explain_prediction(self, X_instance, top_n) ==
    LET prediction_proba == model_predict_proba(self.model, X_instance)
        prediction == model_predict(self.model, X_instance)
        contributions ==
            sorted_by_abs_impact(
                contributions_of(self.feature_importance, self.feature_names, X_instance))
    IN  [ prediction |-> prediction,
          prediction_label |-> IF prediction = 1 THEN "Yes" ELSE "No",
          probability |-> [ No |-> prediction_proba[1], Yes |-> prediction_proba[2] ],
          confidence |-> confidence_explain(Max(prediction_proba[1], prediction_proba[2])),
          top_factors |-> SubSeq(contributions, 1, Min(top_n, Len(contributions))) ]

\* PredictionService.get_feature_importance: the slice [:top_n]
get_feature_importance(self, top_n) ==
    SubSeq(self.explainer_data.feature_importance, 1,
           Min(top_n, Len(self.explainer_data.feature_importance)))

(***************************************************************************)
(* The request schema (models.py 8-32): every field is required except     *)
(* work_interfere, which defaults to "Never"; Age is an integer in 18..80  *)
(***************************************************************************)
request_fields ==
    { "Age", "Gender", "Country", "self_employed", "family_history", "work_interfere",
      "no_employees", "remote_work", "tech_company", "benefits", "care_options",
      "wellness_program", "seek_help", "anonymity", "leave", "mental_health_consequence",
      "phys_health_consequence", "coworkers", "supervisor", "mental_health_interview",
      "phys_health_interview", "mental_vs_physical", "obs_consequence" }

\* PredictionRequest accepts the request
validates(req) ==
    /\ request_fields \ { "work_interfere" } \subseteq DOMAIN req
    /\ req["Age"] >= 18
    /\ req["Age"] <= 80

\* request.model_dump(): the fields of the schema, defaults filled in
model_dump(req) ==
    [ f \in request_fields |->
        IF f \in DOMAIN req THEN req[f] ELSE "Never" ]

\* the fields for which validation reports an error: a required field that
\* is missing, an Age that fails ge=18 or le=80
schema_errors(req) ==
    ((request_fields \ { "work_interfere" }) \ DOMAIN req)
        \cup (IF "Age" \in DOMAIN req
              THEN IF req["Age"] < 18 \/ req["Age"] > 80 THEN { "Age" } ELSE { }
              ELSE { })

\* the endpoint predict_treatment (main.py 62-78) on a service object whose
\* attributes are `self`: a body that fails validation is answered 422 with
\* the offending fields and the handler does not run; an exception in the
\* handler is answered 500
predict_treatment(self, req) ==
    IF schema_errors(req) # { }
    THEN [ status |-> 422, fields |-> schema_errors(req), body |-> Raised("SchemaError") ]
    ELSE LET body == predict(self, model_dump(req))
         IN  [ status |-> IF body.out = "ok" THEN 200 ELSE 500, fields |-> { }, body |-> body ]

(***************************************************************************)
(* State of the processes                                                  *)
(***************************************************************************)
Threads == 1..NumThreads

\* the order in which _load_model reads the store (predict.py 37-41)
load_order == << "model", "scaler", "feature_names", "label_encoders", "explainer" >>

\* a PredictionService object on which nothing is loaded: the class
\* attributes _model, _scaler, ... are None (predict.py 20-24)
Unloaded == [ n \in Range(load_order) |-> NoBlob ]

Loaded(obj) == \A n \in Range(load_order) : Present(obj[n])

\* the request of models.py 37-59
Example ==
    [ Age |-> 30, Gender |-> "Male", Country |-> "United States",
      self_employed |-> "No", family_history |-> "Yes",
      work_interfere |-> "Sometimes", no_employees |-> "26-100",
      remote_work |-> "Yes", tech_company |-> "Yes", benefits |-> "Yes",
      care_options |-> "Yes", wellness_program |-> "No", seek_help |-> "Yes",
      anonymity |-> "Yes", leave |-> "Somewhat easy",
      mental_health_consequence |-> "No", phys_health_consequence |-> "No",
      coworkers |-> "Some of them", supervisor |-> "Yes",
      mental_health_interview |-> "No", phys_health_interview |-> "Maybe",
      mental_vs_physical |-> "Yes", obs_consequence |-> "No" ]

Fields == DOMAIN Example

\* the values a composed record may give a field
FieldValues(f) ==
    CASE f = "Age" -> { 18, 25, 26, 35, 36, 45, 46, 80, 101 }
      [] f = "Gender" -> { "Male", "Female", "Other", "Agender" }
      [] f = "Country" ->
            { "United States", "Australia", "India", "Poland", "Wakanda", "Other" }
      [] f = "work_interfere" -> { "Never", "Rarely", "Sometimes", "Often", "Unknown" }
      [] f = "leave" -> { "Very easy", "Somewhat easy", "Very difficult", "Unknown" }
      [] f = "no_employees" -> { "1-5", "26-100", "More than 1000", "Unknown" }
      [] f \in Range(three_way_features) -> { "Yes", "No", "Don't know", "Not sure" }
      [] f \in Range(binary_features) -> { "Yes", "No", "Maybe" }
      [] f \in { "coworkers", "supervisor" } -> { "Yes", "No", "Some of them", "Maybe" }
      [] OTHER -> { "Yes", "No", "Maybe", "Don't know" }

\* in how many fields a record differs from the example
Edits(rec) == Cardinality({ f \in Fields : f \notin DOMAIN rec \/ rec[f] # Example[f] })

NoResult == [ out |-> "none", X |-> << >>, X_scaled |-> << >> ]

\* no call has returned yet
NoResponse == [ call |-> "none", top_n |-> 0, ret |-> << >> ]

\* the top_n arguments callers pass get_feature_importance (main.py 96 passes
\* 15, the default is 20)
TopNArgs == { 5, 15, 20, 60 }

\* the order in which PredictionRequest declares its fields (models.py
\* 10-32), which is the order model_dump lists them in
schema_order == SelectSeq(feature_cols, LAMBDA f : f \in Fields)

\* a mapping as the endpoint builds it; `moves` counts the fields a caller
\* has listed out of that order
SchemaListing == [ order |-> schema_order, moves |-> 0 ]

\* the records whose listing is varied: the example, a record without the
\* defaulted field, one with a country and a size the fit never saw, and
\* one without the Age the derived column reads
ListedRecords ==
    { Example,
      [ f \in Fields \ { "work_interfere" } |-> Example[f] ],
      [ Example EXCEPT !["Country"] = "Wakanda", !["no_employees"] = "Unknown" ],
      [ f \in Fields \ { "Age" } |-> Example[f] ] }

\* the Age range of the request schema (models.py 10, ge and le)
MinAge == 18

MaxAge == 80

\* the company sizes a record may name: the six labels and one that is none
SizeValues == DOMAIN size_mapping \cup { "Unknown" }

\* the fields a caller lists first, one of each kind
MovableFields ==
    { "Age", "no_employees", "leave", "wellness_program", "supervisor", "obs_consequence" }

\* no predict call is kept on record
NoneServed == [ kept |-> FALSE, rec |-> Example, ret |-> Raised("none") ]

\* the calls of run_training_pipeline up to save_artifacts, in the order of
\* train_model.py 358-366
pipeline_steps ==
    << "load_data", "prepare_features", "split_data", "scale_features", "train_xgboost",
       "cross_validate", "evaluate_model", "plot_evaluation_charts", "save_artifacts" >>

\* a ModelTrainer on which nothing has run (train_model.py 30-40): `done`
\* lists the steps executed, `encoded` tells whether the corpus was encoded
\* into X, `split` whether X_train and X_test exist, `scaler_rows` the rows
\* the scaler was fitted on, `model_rows` the rows the scorer was trained on
IdlePipeline ==
    [ done |-> << >>, encoded |-> FALSE, split |-> FALSE,
      scaler_rows |-> "none", model_rows |-> "none" ]

IdleTrainer == [ pc |-> "idle", run |-> 0, corpus |-> 1, written |-> 0 ]

\* a thread that has not called PredictionService() yet; `saw` records, for
\* the properties only, the fitting process as it was when the thread
\* entered _load_model
NoTrainer == [ pc |-> "none", run |-> 0, written |-> 0 ]

NewThread == [ pc |-> "idle", self |-> 0, k |-> 1, ret |-> 0, saw |-> NoTrainer ]

(***************************************************************************)
(* ModelTrainer.run_training_pipeline (train_model.py 354-371)             *)
(***************************************************************************)
\* lines 358-365: the run fits its objects in memory
StartRun(c) ==
    /\ trainer.pc \in { "idle", "completed", "interrupted" }
    /\ trainer.run < MaxRuns
    /\ trainer' = [ pc |-> "saving", run |-> trainer.run + 1, corpus |-> c, written |-> 0 ]
    /\ UNCHANGED << store, instance, threads, loads, input_data, result, response, listing, served, pipeline >>

\* save_artifacts (306-334): one joblib.dump per step, in save_order
SaveStep ==
    /\ trainer.pc = "saving"
    /\ LET name == save_order[trainer.written + 1]
       IN  store' = [ store EXCEPT ![name] = fitted(trainer.corpus, trainer.run)[name] ]
    /\ trainer' = [ trainer EXCEPT !.written = @ + 1,
                                   !.pc = IF trainer.written + 1 = Len(save_order)
                                          THEN "completed" ELSE "saving" ]
    /\ UNCHANGED << instance, threads, loads, input_data, result, response, listing, served, pipeline >>

\* ModelTrainer() and the call of run_training_pipeline (train_model.py
\* 374-375): a run starts with nothing fitted
BeginRun(c) ==
    /\ trainer.pc \in { "idle", "completed", "interrupted" }
    /\ trainer.run < MaxRuns
    /\ trainer' = [ pc |-> "fitting", run |-> trainer.run + 1, corpus |-> c, written |-> 0 ]
    /\ pipeline' = IdlePipeline
    /\ UNCHANGED << store, instance, threads, loads, input_data, result, response, listing, served >>

\* the effect of one step of the pipeline on the trainer's objects:
\* prepare_features encodes the corpus (49-130), split_data makes the train
\* and test rows (136-138), scale_features fits the scaler on X_train and
\* transforms both parts (151-153), train_xgboost fits the scorer on X_train
\* (191-194)
pipeline_after(p, step) ==
    [ done |-> Append(p.done, step),
      encoded |-> p.encoded \/ step = "prepare_features",
      split |-> p.split \/ step = "split_data",
      scaler_rows |-> IF step # "scale_features" THEN p.scaler_rows
                      ELSE IF p.split THEN "train" ELSE "all",
      model_rows |-> IF step # "train_xgboost" THEN p.model_rows
                     ELSE IF p.split THEN "train" ELSE "all" ]

\* lines 358-366, one call per step; with save_artifacts the run goes on to
\* its dumps
FitStep ==
    /\ trainer.pc = "fitting"
    /\ LET step == pipeline_steps[Len(pipeline.done) + 1]
       IN  /\ pipeline' = pipeline_after(pipeline, step)
           /\ trainer' = [ trainer EXCEPT !.pc = IF step = "save_artifacts"
                                                 THEN "saving" ELSE "fitting" ]
    /\ UNCHANGED << store, instance, threads, loads, input_data, result, response, listing, served >>

\* the fitting process is killed between two dumps
Interrupt ==
    /\ trainer.pc = "saving"
    /\ trainer' = [ trainer EXCEPT !.pc = "interrupted" ]
    /\ UNCHANGED << store, instance, threads, loads, input_data, result, response, listing, served, pipeline >>

(***************************************************************************)
(* ModelExplainer.run_explainer_pipeline (explainer.py 157-167), run as a  *)
(* process of its own (explainer.py 170-172)                               *)
(***************************************************************************)
\* load_artifacts (23-35) raises when a file is missing and the process
\* ends; otherwise compute_feature_importance and save_explainer_data
RunExplainer ==
    /\ \A n \in { "model", "scaler", "feature_names" } : Present(store[n])
    /\ store' = [ store EXCEPT !["explainer"] =
                    explainer_blob(store["model"], store["feature_names"]) ]
    /\ UNCHANGED << trainer, instance, threads, loads, input_data, result, response, listing, served, pipeline >>

(***************************************************************************)
(* PredictionService.__new__ and _load_model (predict.py 26-43), executed  *)
(* by thread t.  An object is named by the thread that allocated it.       *)
(***************************************************************************)
\* line 28: if cls._instance is None
NewCheck(t) ==
    /\ threads[t].pc = "idle"
    /\ threads' = [ threads EXCEPT ![t].pc = IF instance.ref = 0 THEN "alloc" ELSE "return" ]
    /\ UNCHANGED << store, trainer, instance, loads, input_data, result, response, listing, served, pipeline >>

\* line 29: cls._instance = super().__new__(cls)
NewAlloc(t) ==
    /\ threads[t].pc = "alloc"
    /\ instance' = [ instance EXCEPT !.ref = t, !.objs[t] = Unloaded ]
    /\ threads' = [ threads EXCEPT ![t].pc = "call_load" ]
    /\ UNCHANGED << store, trainer, loads, input_data, result, response, listing, served, pipeline >>

\* line 30: cls._instance._load_model() binds self and enters the method
NewCallLoad(t) ==
    /\ threads[t].pc = "call_load"
    /\ threads' = [ threads EXCEPT ![t].pc = "load", ![t].self = instance.ref, ![t].k = 1,
                                   ![t].saw = [ pc |-> trainer.pc, run |-> trainer.run,
                                                written |-> trainer.written ] ]
    /\ loads' = loads + 1
    /\ UNCHANGED << store, trainer, instance, input_data, result, response, listing, served, pipeline >>

\* lines 37-41: one joblib.load per step; a missing file raises and the
\* exception leaves __new__
LoadStep(t) ==
    /\ threads[t].pc = "load"
    /\ LET name == load_order[threads[t].k]
       IN  IF Present(store[name])
           THEN /\ instance' = [ instance EXCEPT !.objs[threads[t].self][name] = store[name] ]
                /\ threads' = [ threads EXCEPT
                                  ![t].k = @ + 1,
                                  ![t].pc = IF threads[t].k = Len(load_order)
                                            THEN "return" ELSE "load" ]
           ELSE /\ threads' = [ threads EXCEPT ![t].pc = "raised" ]
                /\ UNCHANGED instance
    /\ UNCHANGED << store, trainer, loads, input_data, result, response, listing, served, pipeline >>

\* line 31: return cls._instance
NewReturn(t) ==
    /\ threads[t].pc = "return"
    /\ threads' = [ threads EXCEPT ![t].pc = "done", ![t].ret = instance.ref ]
    /\ UNCHANGED << store, trainer, instance, loads, input_data, result, response, listing, served, pipeline >>

Construct(t) ==
    \/ NewCheck(t)
    \/ NewAlloc(t)
    \/ NewCallLoad(t)
    \/ LoadStep(t)
    \/ NewReturn(t)

(***************************************************************************)
(* Calls on the service object a construction returned                     *)
(***************************************************************************)
\* the caller composes the record: it sets a field ...
SetField(f, v) ==
    /\ IF f \in DOMAIN input_data THEN input_data[f] # v ELSE TRUE
    /\ LET rec == [ g \in DOMAIN input_data \cup { f } |-> IF g = f THEN v ELSE input_data[g] ]
       IN  /\ Edits(rec) <= MaxEdits
           /\ input_data' = rec
    /\ result' = NoResult
    /\ response' = NoResponse
    /\ UNCHANGED << store, trainer, instance, threads, loads, listing, served, pipeline >>

\* ... or leaves one out
DelField(f) ==
    /\ f \in DOMAIN input_data
    /\ LET rec == [ g \in DOMAIN input_data \ { f } |-> input_data[g] ]
       IN  /\ Edits(rec) <= MaxEdits
           /\ input_data' = rec
    /\ result' = NoResult
    /\ response' = NoResponse
    /\ UNCHANGED << store, trainer, instance, threads, loads, listing, served, pipeline >>

\* prediction_service.preprocess_input(input_data), by the holder of the
\* object thread t's construction returned
PreprocessInput(t) ==
    /\ threads[t].pc = "done"
    /\ Loaded(instance.objs[threads[t].ret])
    /\ result' = preprocess_input(attributes(instance.objs[threads[t].ret]), input_data)
    /\ UNCHANGED << store, trainer, instance, threads, loads, input_data, response, listing, served, pipeline >>

\* Predict with a slip: the row of the previous preprocess_input call is
\* scored when there is one
Predict_reusing_row(t, keep) ==
    /\ threads[t].pc = "done"
    /\ Loaded(instance.objs[threads[t].ret])
    /\ keep => ~served.kept
    /\ LET self == attributes(instance.objs[threads[t].ret])
           ret == IF result.out = "ok" THEN predict_scored(self, result.X_scaled)
                  ELSE predict(self, input_data)
       IN  /\ result' = IF result.out = "ok" THEN result
                        ELSE preprocess_input(self, input_data)
           /\ response' = [ call |-> "predict", top_n |-> 0, ret |-> ret ]
           /\ served' = IF keep THEN [ kept |-> TRUE, rec |-> input_data, ret |-> ret ]
                        ELSE served
    /\ UNCHANGED << store, trainer, instance, threads, loads, input_data, listing, pipeline >>

\* prediction_service.predict(input_data) (main.py 75); with `keep` the
\* call is the one kept on record
Predict(t, keep) ==
    /\ threads[t].pc = "done"
    /\ Loaded(instance.objs[threads[t].ret])
    /\ keep => ~served.kept
    /\ LET self == attributes(instance.objs[threads[t].ret])
           ret == predict(self, input_data)
       IN  /\ result' = preprocess_input(self, input_data)
           /\ response' = [ call |-> "predict", top_n |-> 0, ret |-> ret ]
           /\ served' = IF keep THEN [ kept |-> TRUE, rec |-> input_data, ret |-> ret ]
                        ELSE served
    /\ UNCHANGED << store, trainer, instance, threads, loads, input_data, listing, pipeline >>

\* GetFeatureImportance with a slip: the ranking is popped off the loaded
\* explainer data instead of being read
GetFeatureImportance_popping(t, top_n) ==
    /\ threads[t].pc = "done"
    /\ Loaded(instance.objs[threads[t].ret])
    /\ response' = [ call |-> "get_feature_importance", top_n |-> top_n,
                     ret |-> get_feature_importance(
                                 attributes(instance.objs[threads[t].ret]), top_n) ]
    /\ instance' = [ instance EXCEPT !.objs[threads[t].ret]["explainer"] = NoBlob ]
    /\ UNCHANGED << store, trainer, threads, loads, input_data, result, listing, served, pipeline >>

\* prediction_service.get_feature_importance(top_n) (main.py 96)
GetFeatureImportance(t, top_n) ==
    /\ threads[t].pc = "done"
    /\ Loaded(instance.objs[threads[t].ret])
    /\ response' = [ call |-> "get_feature_importance", top_n |-> top_n,
                     ret |-> get_feature_importance(
                                 attributes(instance.objs[threads[t].ret]), top_n) ]
    /\ UNCHANGED << store, trainer, instance, threads, loads, input_data, result, listing, served, pipeline >>

\* POST /predict with the composed record as body (main.py 62-78)
PredictTreatment(t) ==
    /\ threads[t].pc = "done"
    /\ Loaded(instance.objs[threads[t].ret])
    /\ LET self == attributes(instance.objs[threads[t].ret])
       IN  /\ result' = IF schema_errors(input_data) = { }
                        THEN preprocess_input(self, model_dump(input_data))
                        ELSE result
           /\ response' = [ call |-> "predict_treatment", top_n |-> 0,
                            ret |-> predict_treatment(self, input_data) ]
    /\ UNCHANGED << store, trainer, instance, threads, loads, input_data, listing, served, pipeline >>

\* a request handler gets another record to serve
Receive(rec) ==
    /\ rec # input_data
    /\ input_data' = rec
    /\ response' = NoResponse
    /\ UNCHANGED << store, trainer, instance, threads, loads, result, listing, served, pipeline >>

\* the caller builds the same mapping with field f listed first
MoveToFront(f) ==
    /\ listing.moves < MaxMoves
    /\ listing.order[1] # f
    /\ listing' = [ order |-> << f >> \o SelectSeq(listing.order, LAMBDA g : g # f),
                    moves |-> listing.moves + 1 ]
    /\ result' = NoResult
    /\ response' = NoResponse
    /\ UNCHANGED << store, trainer, instance, threads, loads, input_data, served, pipeline >>

\* prediction_service.preprocess_input(input_data) on the mapping as listed
PreprocessListed(t) ==
    /\ threads[t].pc = "done"
    /\ Loaded(instance.objs[threads[t].ret])
    /\ result' = preprocess_listed(attributes(instance.objs[threads[t].ret]),
                                   input_data, listing.order)
    /\ UNCHANGED << store, trainer, instance, threads, loads, input_data, response, listing, served, pipeline >>

(***************************************************************************)
(* Specifications                                                          *)
(***************************************************************************)
\* Serving: a service whose bundle one fitting run wrote completely, and
\* every record within MaxEdits fields of the example
Init ==
    \E c \in DOMAIN Corpora :
        /\ store = complete_store(c, 1)
        /\ trainer = [ pc |-> "completed", run |-> 1, corpus |-> c, written |-> Len(save_order) ]
        /\ instance = [ ref |-> 1,
                        objs |-> [ t \in Threads |->
                                     IF t = 1 THEN [ n \in Range(load_order) |->
                                                       complete_store(c, 1)[n] ]
                                     ELSE Unloaded ] ]
        /\ threads = [ t \in Threads |->
                         IF t = 1 THEN [ pc |-> "done", self |-> 1,
                                         k |-> Len(load_order) + 1, ret |-> 1,
                                         saw |-> [ pc |-> "completed", run |-> 1,
                                                   written |-> Len(save_order) ] ]
                         ELSE NewThread ]
        /\ loads = 1
        /\ input_data = Example
        /\ result = NoResult
        /\ response = NoResponse
        /\ listing = SchemaListing
        /\ served = NoneServed
        /\ pipeline = IdlePipeline

Next ==
    \/ \E f \in Fields : \E v \in FieldValues(f) : SetField(f, v)
    \/ \E f \in Fields : DelField(f)
    \/ PreprocessInput(1)
    \/ Predict(1, FALSE)

Spec == Init /\ [][Next]_vars

\* Listing: the same records, their fields listed in different orders
InitListing ==
    \E c \in DOMAIN Corpora : \E rec \in ListedRecords :
        /\ store = complete_store(c, 1)
        /\ trainer = [ pc |-> "completed", run |-> 1, corpus |-> c, written |-> Len(save_order) ]
        /\ instance = [ ref |-> 1,
                        objs |-> [ t \in Threads |->
                                     IF t = 1 THEN [ n \in Range(load_order) |->
                                                       complete_store(c, 1)[n] ]
                                     ELSE Unloaded ] ]
        /\ threads = [ t \in Threads |->
                         IF t = 1 THEN [ pc |-> "done", self |-> 1,
                                         k |-> Len(load_order) + 1, ret |-> 1,
                                         saw |-> [ pc |-> "completed", run |-> 1,
                                                   written |-> Len(save_order) ] ]
                         ELSE NewThread ]
        /\ loads = 1
        /\ input_data = rec
        /\ result = NoResult
        /\ response = NoResponse
        /\ listing = SchemaListing
        /\ served = NoneServed
        /\ pipeline = IdlePipeline

NextListing ==
    \/ \E f \in MovableFields : MoveToFront(f)
    \/ PreprocessListed(1)

SpecListing == InitListing /\ [][NextListing]_vars

\* The endpoint: every request body within MaxEdits fields of the example,
\* posted to a service whose bundle one fitting run wrote completely
NextEndpoint ==
    \/ \E f \in Fields : \E v \in FieldValues(f) : SetField(f, v)
    \/ \E f \in Fields : DelField(f)
    \/ PredictTreatment(1)

SpecEndpoint == Init /\ [][NextEndpoint]_vars

\* Derived fields: the example with every Age of the schema's range and
\* every company size
InitDerived ==
    \E c \in DOMAIN Corpora : \E age \in MinAge..MaxAge : \E size \in SizeValues :
        /\ store = complete_store(c, 1)
        /\ trainer = [ pc |-> "completed", run |-> 1, corpus |-> c, written |-> Len(save_order) ]
        /\ instance = [ ref |-> 1,
                        objs |-> [ t \in Threads |->
                                     IF t = 1 THEN [ n \in Range(load_order) |->
                                                       complete_store(c, 1)[n] ]
                                     ELSE Unloaded ] ]
        /\ threads = [ t \in Threads |->
                         IF t = 1 THEN [ pc |-> "done", self |-> 1,
                                         k |-> Len(load_order) + 1, ret |-> 1,
                                         saw |-> [ pc |-> "completed", run |-> 1,
                                                   written |-> Len(save_order) ] ]
                         ELSE NewThread ]
        /\ loads = 1
        /\ input_data = [ Example EXCEPT !["Age"] = age, !["no_employees"] = size ]
        /\ result = NoResult
        /\ response = NoResponse
        /\ listing = SchemaListing
        /\ served = NoneServed
        /\ pipeline = IdlePipeline

NextDerived == PreprocessInput(1)

SpecDerived == InitDerived /\ [][NextDerived]_vars

\* Calls: request handlers that all hold the loaded service object serve
\* records one after the other, in any order
InitCalls ==
    \E c \in DOMAIN Corpora :
        /\ store = complete_store(c, 1)
        /\ trainer = [ pc |-> "completed", run |-> 1, corpus |-> c, written |-> Len(save_order) ]
        /\ instance = [ ref |-> 1,
                        objs |-> [ t \in Threads |->
                                     IF t = 1 THEN [ n \in Range(load_order) |->
                                                       complete_store(c, 1)[n] ]
                                     ELSE Unloaded ] ]
        /\ threads = [ t \in Threads |->
                         [ pc |-> "done", self |-> 1, k |-> Len(load_order) + 1, ret |-> 1,
                           saw |-> [ pc |-> "completed", run |-> 1,
                                     written |-> Len(save_order) ] ] ]
        /\ loads = 1
        /\ input_data = Example
        /\ result = NoResult
        /\ response = NoResponse
        /\ listing = SchemaListing
        /\ served = NoneServed
        /\ pipeline = IdlePipeline

NextCalls ==
    \/ \E rec \in ListedRecords : Receive(rec)
    \/ \E t \in Threads : PreprocessInput(t)
    \/ \E t \in Threads : \E keep \in BOOLEAN : Predict(t, keep)
    \/ \E t \in Threads : \E top_n \in TopNArgs : GetFeatureImportance(t, top_n)

SpecCalls == InitCalls /\ [][NextCalls]_vars

\* The store: fitting runs, the explainer set-up and one service process
\* (the construction at predict.py 206) against an initially empty store
InitStore ==
    /\ store = EmptyStore
    /\ trainer = IdleTrainer
    /\ instance = [ ref |-> 0, objs |-> [ t \in Threads |-> Unloaded ] ]
    /\ threads = [ t \in Threads |-> NewThread ]
    /\ loads = 0
    /\ input_data = Example
    /\ result = NoResult
    /\ response = NoResponse
    /\ listing = SchemaListing
    /\ served = NoneServed
    /\ pipeline = IdlePipeline

NextStore ==
    \/ \E c \in DOMAIN Corpora : StartRun(c)
    \/ SaveStep
    \/ Interrupt
    \/ RunExplainer
    \/ Construct(1)
    \/ PreprocessInput(1)

SpecStore == InitStore /\ [][NextStore]_vars

\* Fitting: runs of the training pipeline, step by step, against an
\* initially empty store
NextFit ==
    \/ \E c \in DOMAIN Corpora : BeginRun(c)
    \/ FitStep
    \/ SaveStep
    \/ Interrupt

SpecFit == InitStore /\ [][NextFit]_vars

\* The singleton: NumThreads threads construct PredictionService against
\* a store that is complete or lacks one file
InitSingleton ==
    /\ \E c \in DOMAIN Corpora : \E missing \in { "none" } \cup Range(load_order) :
          store = [ n \in BlobNames |->
                      IF n = missing THEN NoBlob ELSE complete_store(c, 1)[n] ]
    /\ trainer = IdleTrainer
    /\ instance = [ ref |-> 0, objs |-> [ t \in Threads |-> Unloaded ] ]
    /\ threads = [ t \in Threads |-> NewThread ]
    /\ loads = 0
    /\ input_data = Example
    /\ result = NoResult
    /\ response = NoResponse
    /\ listing = SchemaListing
    /\ served = NoneServed
    /\ pipeline = IdlePipeline

NextSingleton ==
    \/ \E t \in Threads : Construct(t)
    \/ \E t \in Threads : PreprocessInput(t)
    \/ \E t \in Threads : \E top_n \in TopNArgs : GetFeatureImportance(t, top_n)

SpecSingleton == InitSingleton /\ [][NextSingleton]_vars

(***************************************************************************)
(* Properties of the encoding, checked under Spec                          *)
(***************************************************************************)
\* the loaded service object and the corpus its feature names were fitted on
Svc == attributes(instance.objs[1])

SvcCorpus == Corpora[instance.objs[1]["feature_names"].corpus]

\* preprocess_input got as far as building the vector
Built == result.out \in { "ok", "ValueError" }

\* positions of the indicator columns of a field in feature_names
ColumnsOf(feat) ==
    { i \in 1..Len(Svc.feature_names) :
        Len(Svc.feature_names[i]) = 2 /\ Svc.feature_names[i][1] = feat }

\* position of a raw column in feature_names
ColumnOf(feat) == IndexOf(Svc.feature_names, << feat >>) + 1

\* the nominal fields the record gives a value, and that value
NominalGiven(rec) ==
    { f \in Range(nominal_features) : f = "company_size_category" \/ f \in DOMAIN rec }

NominalValue(rec, feat) ==
    IF feat = "company_size_category" THEN company_size_of(rec["no_employees"]) ELSE rec[feat]

\* the ordinal fields the encoder sees a value for, and that value
OrdinalGiven(rec) ==
    { f \in DOMAIN ordinal_features : f = "age_group" \/ f \in DOMAIN rec }

OrdinalValue(rec, feat) ==
    IF feat = "age_group" THEN age_group_of(rec["Age"]) ELSE rec[feat]

\* C1: for every record accepted for serving, the vector preprocess_input
\* builds before scaling equals, column by column, the row prepare_features
\* produces for the same record under the same fitted bundle.
C1_ServeEqualsFit ==
    (result.out = "ok" /\ validates(input_data) /\ input_data = model_dump(input_data))
        => result.X = prepare_features_row(SvcCorpus, input_data)

C3_RetainedNominalFires ==
    result.out = "ok" =>
        \A feat \in NominalGiven(input_data) :
            LET v == NominalValue(input_data, feat)
            IN  (v \in top_cats(SvcCorpus, feat) /\ << feat, v >> \in Range(Svc.feature_names))
                    => \A i \in ColumnsOf(feat) :
                          result.X[i] = IF Svc.feature_names[i][2] = v THEN 1 ELSE 0

C5_UnseenCountryIsOther ==
    (result.out # "none" /\ { "Age", "no_employees", "Country" } \subseteq DOMAIN input_data
       /\ input_data["Country"] \notin top_cats(SvcCorpus, "Country")) =>
        /\ result.out = "ok"
        /\ \A i \in ColumnsOf("Country") :
              result.X[i] = IF group_rare(SvcCorpus, "Country", input_data["Country"])
                                  = Svc.feature_names[i][2]
                            THEN 1 ELSE 0

\* the middle indices the claim names
ordinal_middle == [ work_interfere |-> 2, leave |-> 2, no_employees |-> 3, age_group |-> 2 ]

\* C6: for every ordinal field a value that is not in the field's declared
\* order encodes to len(order) // 2 (2, 2, 3 and 2), at serve time and at
\* fit time alike, and never raises.
C6_UnknownOrdinalMiddle ==
    (result.out # "none" /\ { "Age", "no_employees" } \subseteq DOMAIN input_data) =>
        /\ result.out = "ok"
        /\ \A feat \in OrdinalGiven(input_data) :
              OrdinalValue(input_data, feat) \notin Range(ordinal_features[feat])
                  => /\ result.X[ColumnOf(feat)] = Len(ordinal_features[feat]) \div 2
                     /\ result.X[ColumnOf(feat)] = ordinal_middle[feat]
                     /\ fit_cell(SvcCorpus, corpus_row(input_data), << feat >>)
                            = ordinal_middle[feat]

\* C6 witness: a record with an ordinal value outside its order was encoded
C6_Witness ==
    /\ result.out = "ok"
    /\ \E feat \in OrdinalGiven(input_data) :
          OrdinalValue(input_data, feat) \notin Range(ordinal_features[feat])

\* the ordinal fields that are fields of the record (age_group is derived)
OrdinalRecordFields == DOMAIN ordinal_features \cap Fields

C8_AtMostOneLoad == loads <= 1

(***************************************************************************)
(* Properties of the artifact store, checked under SpecStore               *)
(***************************************************************************)
\* the construction of the service process returned from _load_model
LoadSucceeded == threads[1].pc \in { "return", "done" }

\* the object that construction loaded
LoadedObject == instance.objs[threads[1].self]

\* the store is what a fitting run left when it was killed after some, not
\* all, of its dumps, and it was so when the service entered _load_model
LoadedFromPartialWrite ==
    /\ LoadSucceeded
    /\ threads[1].saw.pc = "interrupted"
    /\ threads[1].saw.written > 0
    /\ threads[1].saw.written < Len(save_order)
    /\ trainer.pc = "interrupted"
    /\ trainer.run = threads[1].saw.run

\* C9: a bundle is fully written or not written: when the fitting run's
\* write is interrupted after a proper subset of its blobs, the serving
\* loader never succeeds in loading the resulting store.
C9_PartialNeverLoads == ~LoadedFromPartialWrite

\* all the blobs on the loaded object come from one fitting run
SameRunLoaded ==
    \E r \in 1..MaxRuns : \A n \in Range(load_order) : LoadedObject[n].runs = { r }

\* the scaler's parameter count is the feature-name count
CountsAgree ==
    scaler_of(LoadedObject["scaler"]).n_features_in
        = Len(feature_names_of(LoadedObject["feature_names"]))

\* C10: loading a bundle whose blobs do not come from the same fitting run,
\* in particular one whose scaler parameter count differs from its
\* feature-name count, fails at load time, and no prediction is ever served
\* from such a bundle.
C10_MismatchRejected ==
    /\ LoadSucceeded => CountsAgree
    /\ result.out = "ok" => SameRunLoaded

\* C11: when a fitting run completes, the store holds the scorer, scaler,
\* feature names, label encoders and the global importance ranking, all
\* produced by that same run.
C11_RunLeavesOwnRanking ==
    trainer.pc = "completed" =>
        \A n \in Range(load_order) : store[n].runs = { trainer.run }

(***************************************************************************)
(* Properties of predict, checked under Spec                               *)
(***************************************************************************)
\* predict returned a result
PredictOk == response.call = "predict" /\ response.ret.out = "ok"

\* the contributions predict built for the row it scored, before the sort
Contributions ==
    contributions_of(Svc.explainer_data.feature_importance, Svc.feature_names,
                     result.X_scaled)

\* the global importance of a feature
ImportanceOf(feat) ==
    LET fi == Svc.explainer_data.feature_importance
    IN  fi[CHOOSE k \in DOMAIN fi : fi[k].feature = feat].importance

\* the encoded value of a feature before scaling, in the units of the scaled
\* values (100 units to 1)
EncodedValue(feat) == result.X[IndexOf(Svc.feature_names, feat) + 1] * 100

\* C12: for every feature, the impact score in a prediction's contributions
\* is the feature's encoded value before scaling times its global importance.
C12_ImpactUsesEncodedValue ==
    PredictOk =>
        /\ \A k \in DOMAIN Contributions :
              Contributions[k].impact
                  = EncodedValue(Contributions[k].feature)
                      * ImportanceOf(Contributions[k].feature)
        /\ \A k \in DOMAIN response.ret.top_factors :
              response.ret.top_factors[k].impact
                  = EncodedValue(response.ret.top_factors[k].feature)
                      * ImportanceOf(response.ret.top_factors[k].feature)

\* C13: top_factors is ordered by non-increasing absolute impact.
C13_TopFactorsOrdered ==
    PredictOk =>
        \A k \in 1..(Len(response.ret.top_factors) - 1) :
            Abs(response.ret.top_factors[k].impact)
                >= Abs(response.ret.top_factors[k + 1].impact)

\* C13 witness: a result whose factors do not all have the same |impact|
C13_Witness ==
    /\ PredictOk
    /\ Len(response.ret.top_factors) >= 2
    /\ Abs(response.ret.top_factors[1].impact)
           > Abs(response.ret.top_factors[Len(response.ret.top_factors)].impact)

\* the features named in top_factors
TopFeatures == { response.ret.top_factors[k].feature : k \in DOMAIN response.ret.top_factors }

\* C14: for a bundle with n features predict returns exactly min(5, n) top
\* factors, each for a distinct feature, and no feature left out has a
\* strictly larger absolute impact than one that is included.
C14_TopFactorsAreTheLargest ==
    PredictOk =>
        LET contribs == Contributions
            top == response.ret.top_factors
            features == TopFeatures
        IN  /\ Len(top) = Min(5, Len(Svc.feature_names))
            /\ Cardinality(features) = Len(top)
            /\ features \subseteq Range(Svc.feature_names)
            /\ \A k \in 1..Len(contribs) :
                  contribs[k].feature \notin features
                      => \A j \in 1..Len(top) :
                            Abs(contribs[k].impact) <= Abs(top[j].impact)

\* C14 witness: five factors were returned and a feature with a non-zero
\* impact was left out
C14_Witness ==
    /\ PredictOk
    /\ Len(response.ret.top_factors) = 5
    /\ LET contribs == Contributions
       IN  \E k \in 1..Len(contribs) :
              contribs[k].feature \notin TopFeatures /\ contribs[k].impact # 0

\* C15: a contribution's direction is "positive" exactly when its impact is
\* strictly greater than 0 and "negative" otherwise, an impact of 0 included.
C15_DirectionFollowsSign ==
    PredictOk =>
        LET contribs == Contributions
            top == response.ret.top_factors
        IN  /\ \A k \in 1..Len(contribs) :
                  contribs[k].direction
                      = IF contribs[k].impact > 0 THEN "positive" ELSE "negative"
            /\ \A k \in 1..Len(top) :
                  /\ top[k].direction = IF top[k].impact > 0 THEN "positive" ELSE "negative"
                  /\ \E j \in 1..Len(contribs) : contribs[j] = top[k]

\* C15 witness: a contribution of impact 0, reported as negative, next to a
\* positive and a negative factor in the result
C15_Witness ==
    /\ PredictOk
    /\ LET contribs == Contributions
       IN  \E k \in 1..Len(contribs) :
              contribs[k].impact = 0 /\ contribs[k].direction = "negative"
    /\ \E k \in DOMAIN response.ret.top_factors :
          response.ret.top_factors[k].direction = "positive"
    /\ \E k \in DOMAIN response.ret.top_factors :
          response.ret.top_factors[k].direction = "negative"

(***************************************************************************)
(* Properties of the global ranking, checked under SpecSingleton           *)
(***************************************************************************)
\* the threads whose construction returned a loaded object
Holders == { t \in Threads : threads[t].pc = "done" /\ Loaded(instance.objs[threads[t].ret]) }

\* the global ranking and the feature names on the object thread t holds
RankingOf(t) == attributes(instance.objs[threads[t].ret]).explainer_data.feature_importance

NamesOf(t) == attributes(instance.objs[threads[t].ret]).feature_names

\* C16: the global ranking has one entry per feature name, is sorted by
\* non-increasing importance, orders features of equal importance by their
\* position in feature_names and carries ranks 1..n in that order;
\* get_feature_importance(top_n) returns its first min(top_n, n) entries.
C16_GlobalRanking ==
    \A t \in Holders :
        LET ranking == RankingOf(t)
            names == NamesOf(t)
            n == Len(names)
        IN  /\ Len(ranking) = n
            /\ \A i \in 1..n : \E k \in 1..n : ranking[k].feature = names[i]
            /\ \A k \in 1..n : ranking[k].rank = k
            /\ \A k \in 1..(n - 1) :
                  \/ ranking[k].importance > ranking[k + 1].importance
                  \/ /\ ranking[k].importance = ranking[k + 1].importance
                     /\ IndexOf(names, ranking[k].feature)
                            < IndexOf(names, ranking[k + 1].feature)
            /\ response.call = "get_feature_importance"
                  => /\ Len(response.ret) = Min(response.top_n, n)
                     /\ \A k \in 1..Len(response.ret) : response.ret[k] = ranking[k]

\* C16 witness: a ranking with features of equal importance was asked for
\* more entries than it has and returned whole
C16_Witness ==
    /\ response.call = "get_feature_importance"
    /\ \E t \in Holders :
          /\ response.top_n > Len(NamesOf(t))
          /\ Len(response.ret) = Len(NamesOf(t))
          /\ \E k \in 1..(Len(response.ret) - 1) :
                response.ret[k].importance = response.ret[k + 1].importance

\* C16 witness, the other side: fewer entries were asked for than there are
C16_WitnessSlice ==
    /\ response.call = "get_feature_importance"
    /\ \E t \in Holders : Len(response.ret) = response.top_n
                          /\ response.top_n < Len(NamesOf(t))

(***************************************************************************)
(* Properties of the prediction's probabilities, checked under Spec        *)
(***************************************************************************)
\* a ModelExplainer that loaded the artifacts the service loaded and holds
\* the ranking computed from them
ExplainerSelf ==
    [ model |-> Svc.model, scaler |-> Svc.scaler, feature_names |-> Svc.feature_names,
      feature_importance |-> Svc.explainer_data.feature_importance ]

\* max(p_no, p_yes) of the result
MaxProb == Max(response.ret.probability.No, response.ret.probability.Yes)

\* C17: the confidence is High exactly when max(p_no, p_yes) > 0.75, Medium
\* exactly when 0.6 < max(p_no, p_yes) <= 0.75 and Low otherwise, and
\* explain_prediction gives the same bucket for the same probabilities.
C17_ConfidenceBuckets ==
    PredictOk =>
        /\ response.ret.confidence \in { "High", "Medium", "Low" }
        /\ response.ret.confidence = "High" <=> MaxProb > 75
        /\ response.ret.confidence = "Medium" <=> (60 < MaxProb /\ MaxProb <= 75)
        /\ LET explained == explain_prediction(ExplainerSelf, result.X_scaled, TopFactors)
           IN  /\ explained.probability = response.ret.probability
               /\ explained.confidence = response.ret.confidence

\* C17 witness: a maximum of exactly 0.75 was reported as Medium
C17_Witness == PredictOk /\ MaxProb = 75 /\ response.ret.confidence = "Medium"

\* C17 witness, the lower threshold: a maximum of exactly 0.6 reported as Low
C17_WitnessLow == PredictOk /\ MaxProb = 60 /\ response.ret.confidence = "Low"

\* C17 witness, the top bucket
C17_WitnessHigh == PredictOk /\ MaxProb > 75 /\ response.ret.confidence = "High"

C18_WitnessNo == PredictOk /\ response.ret.prediction = "No"

(***************************************************************************)
(* Further properties of the encoding, checked under Spec                  *)
(***************************************************************************)
\* C19: every column of feature_names that the encoding of the record did
\* not produce is in the vector with value 0; no column of feature_names is
\* omitted and no column outside feature_names appears.
C19_MissingColumnsZero ==
    Built =>
        LET produced == serve_columns(input_data, Svc.label_encoders)
            names == Svc.feature_names
        IN  /\ DOMAIN result.X = 1..Len(names)
            /\ \A i \in 1..Len(names) :
                  result.X[i] = IF names[i] \in DOMAIN produced THEN produced[names[i]] ELSE 0

\* C19 witness: the record produced a column that is not in feature_names
\* and left columns of feature_names unproduced
C19_Witness ==
    /\ result.out = "ok"
    /\ LET produced == DOMAIN serve_columns(input_data, Svc.label_encoders)
       IN  /\ produced \ Range(Svc.feature_names) # {}
           /\ \E i \in 1..Len(Svc.feature_names) :
                  Svc.feature_names[i] \notin produced /\ result.X[i] = 0

\* C20: for every binary field the encoded value is 1 if and only if the
\* record's raw value is the literal "Yes"; any other value, and absence of
\* the field, encodes to 0.
C20_BinaryIffYes ==
    result.out = "ok" =>
        \A feat \in Range(binary_features) :
            result.X[ColumnOf(feat)]
                = IF feat \in DOMAIN input_data /\ input_data[feat] = "Yes" THEN 1 ELSE 0

\* C20 witness: a record without one of the binary fields was encoded
C20_Witness ==
    /\ result.out = "ok"
    /\ \E feat \in Range(binary_features) :
          feat \notin DOMAIN input_data /\ result.X[ColumnOf(feat)] = 0

\* C20 witness, a value that is neither Yes nor No
C20_WitnessOther ==
    /\ result.out = "ok"
    /\ \E feat \in Range(binary_features) \cap DOMAIN input_data :
          input_data[feat] = "Maybe" /\ result.X[ColumnOf(feat)] = 0

(***************************************************************************)
(* Properties of the three-way fields, checked under Spec                  *)
(***************************************************************************)
\* the categories feature_names has an indicator column for
CategoriesOf(feat) == { Svc.feature_names[i][2] : i \in ColumnsOf(feat) }

\* C21: for every three-way field the vector has one indicator column per
\* category the field has in feature_names, none of the categories observed
\* at fit time being dropped; the column matching the record's value is 1
\* and all other columns of the field are 0.
C21_ThreeWayIndicators ==
    result.out = "ok" =>
        \A feat \in Range(three_way_features) :
            /\ CategoriesOf(feat) = DOMAIN value_counts(SvcCorpus, feat)
            /\ Cardinality(ColumnsOf(feat)) = Cardinality(CategoriesOf(feat))
            /\ \A i \in ColumnsOf(feat) :
                  /\ i \in DOMAIN result.X
                  /\ result.X[i] = IF feat \in DOMAIN input_data
                                      /\ input_data[feat] = Svc.feature_names[i][2]
                                   THEN 1 ELSE 0

\* C21 witness: a record whose value for a three-way field is the first
\* category of the field was encoded with 1 in that category's column
C21_Witness ==
    /\ result.out = "ok"
    /\ \E feat \in Range(three_way_features) \cap DOMAIN input_data :
          /\ input_data[feat] = Sorted(DOMAIN value_counts(SvcCorpus, feat))[1]
          /\ \E i \in ColumnsOf(feat) :
                Svc.feature_names[i][2] = input_data[feat] /\ result.X[i] = 1
          /\ \E i \in ColumnsOf(feat) : result.X[i] = 0

\* C21 witness, a value that is no category of the field: the block is 0
C21_WitnessUnseen ==
    /\ result.out = "ok"
    /\ \E feat \in Range(three_way_features) \cap DOMAIN input_data :
          /\ input_data[feat] \notin CategoriesOf(feat)
          /\ \A i \in ColumnsOf(feat) : result.X[i] = 0

(***************************************************************************)
(* Properties of the record's field order, checked under SpecListing       *)
(***************************************************************************)
\* C22: two records that map the same field names to the same values but
\* list the fields in different orders get the same encoded vector: what
\* preprocess_input returns for a listing is what it returns for the same
\* mapping listed in the schema's order.
C22_OrderInvariant ==
    result.out # "none" =>
        /\ result = preprocess_listed(Svc, input_data, schema_order)
        /\ result = preprocess_input(Svc, input_data)

\* C22 witness: a vector was built from a record listed out of the schema's
\* order, so that the frame's columns were not in the order of feature_names
C22_Witness ==
    /\ result.out = "ok"
    /\ listing.order # schema_order
    /\ LET cols == columns_of(input_data, listing.order, Svc.label_encoders,
                              Svc.feature_names)
       IN  /\ cols # columns_of(input_data, schema_order, Svc.label_encoders,
                                Svc.feature_names)
           /\ SubSeq(cols, 1, Len(Svc.feature_names)) # Svc.feature_names

C26_CallsLeaveBundle ==
    \A t \in Threads :
        threads[t].pc = "done" =>
            /\ \A n \in Range(load_order) : instance.objs[threads[t].ret][n] = store[n]
            /\ Loaded(instance.objs[threads[t].ret])

\* C26 witness: all three calls have been made
C26_Witness ==
    /\ response.call = "get_feature_importance"
    /\ Len(response.ret) > 0
    /\ result.out = "ok"
    /\ served.kept
    /\ \A t \in Threads : threads[t].pc = "done"

(***************************************************************************)
(* Properties of the request schema, checked under SpecEndpoint            *)
(***************************************************************************)
\* the endpoint answered the request
Answered == response.call = "predict_treatment"

\* the fields the specification calls the required core
CoreFields ==
    { "Age", "Gender", "Country", "family_history", "work_interfere", "benefits",
      "care_options", "self_employed", "obs_consequence", "leave" }

\* the fields the specification calls optional
ExtendedFields == Fields \ CoreFields

\* the request was rejected with a schema error that names field f, before
\* any encoding step ran and without a prediction result
RejectedNaming(f) ==
    /\ response.ret.status = 422
    /\ f \in response.ret.fields
    /\ response.ret.body.out # "ok"
    /\ result.out = "none"

\* C24: a record that lacks a required core field, or whose age is outside
\* 18..80, is rejected with a schema error naming the offending field before
\* any encoding step runs, and no prediction result is produced for it.
C24_CoreFieldsRequired ==
    Answered =>
        /\ \A f \in CoreFields \ DOMAIN input_data : RejectedNaming(f)
        /\ ("Age" \in DOMAIN input_data /\ (input_data["Age"] < 18 \/ input_data["Age"] > 80))
              => RejectedNaming("Age")

\* C25: a record that supplies all required core fields and omits any subset
\* of the optional extended fields is accepted: predict returns a label in
\* {Yes, No} with exactly 5 top factors, without error.
C25_ExtendedFieldsOptional ==
    (Answered /\ CoreFields \subseteq DOMAIN input_data
       /\ input_data["Age"] >= 18 /\ input_data["Age"] <= 80) =>
        /\ response.ret.status = 200
        /\ response.ret.body.out = "ok"
        /\ response.ret.body.prediction \in { "Yes", "No" }
        /\ Len(response.ret.body.top_factors) = 5

(***************************************************************************)
(* Properties of construction, checked under SpecSingleton                 *)
(***************************************************************************)
\* a load of the object in cls._instance has failed
FailedLoad ==
    \E u \in Threads : threads[u].pc = "raised" /\ threads[u].self = instance.ref

\* C27: if the bundle load fails during construction, a subsequent
\* construction re-attempts the load instead of returning the instance whose
\* load failed: a construction that starts after the failure goes on to
\* allocate and load.
C27_FailedLoadRetried ==
    [][ \A t \in Threads :
          (FailedLoad /\ threads[t].pc = "idle" /\ threads'[t].pc # "idle")
              => threads'[t].pc = "alloc" ]_vars

\* C30: whenever a construction returns an instance to a caller, under any
\* interleaving of concurrent constructions, the instance's model, scaler,
\* feature names, label encoders and explainer data are all loaded.
C30_ReturnedInstanceLoaded ==
    \A t \in Threads :
        threads[t].pc = "done" => Loaded(instance.objs[threads[t].ret])

(***************************************************************************)
(* Properties of the fitting run, checked under SpecFit                    *)
(***************************************************************************)
\* the order of the steps as the specification gives it
specified_order ==
    << "prepare_features", "scale_features", "split_data", "train_xgboost",
       "cross_validate", "evaluate_model", "save_artifacts" >>

\* C28: in a fitting run the scaler is fitted on the encoded full corpus
\* before the corpus is split, and the steps occur in the order encode, fit
\* scaler, stratified split, train scorer, cross-validate, evaluate on the
\* held-out split, write the bundle.
C28_ScalerFitBeforeSplit ==
    LET done == SelectSeq(pipeline.done, LAMBDA step : step \in Range(specified_order))
    IN  /\ done = SubSeq(specified_order, 1, Len(done))
        /\ pipeline.split => pipeline.scaler_rows = "all"
        /\ pipeline.scaler_rows \in { "none", "all" }

(***************************************************************************)
(* Properties of the derived fields, checked under SpecDerived             *)
(***************************************************************************)
\* the bucket the claim gives an age, and the bucket's ordinal index
claimed_age_group(age) ==
    IF age <= 25 THEN "18-25"
    ELSE IF age <= 35 THEN "26-35"
    ELSE IF age <= 45 THEN "36-45"
    ELSE "46+"

claimed_age_index(age) ==
    IF age <= 25 THEN 0 ELSE IF age <= 35 THEN 1 ELSE IF age <= 45 THEN 2 ELSE 3

\* C29: for every Age in 18..80 and every no_employees value, age_group and
\* company_size_category computed for a served record equal those the corpus
\* builder computes for the same raw values: ages 18-25, 26-35, 36-45 and
\* 46-80 fall in '18-25', '26-35', '36-45' and '46+' (ordinal indices 0, 1,
\* 2, 3), and the size lookup maps the same six labels to Small, Medium,
\* Large and Very Large.
C29_DerivedFieldsAgree ==
    result.out = "ok" =>
        LET served_df == serve_derived(DataFrame(input_data))
            row == corpus_row(input_data)
            age == input_data["Age"]
        IN  /\ served_df[<< "age_group" >>] = row["age_group"]
            /\ served_df[<< "company_size_category" >>] = row["company_size_category"]
            /\ row["age_group"] = claimed_age_group(age)
            /\ result.X[ColumnOf("age_group")] = claimed_age_index(age)
            /\ fit_cell(SvcCorpus, row, << "age_group" >>) = claimed_age_index(age)
            /\ DOMAIN size_mapping = DOMAIN corpus_size_mapping
            /\ \A v \in DOMAIN size_mapping : size_mapping[v] = corpus_size_mapping[v]
            /\ row["company_size_category"] \in { "Small", "Medium", "Large", "Very Large", NaN }

\* C29 witness: a record whose Age is on a bin edge and whose company size
\* is one of the labels was encoded
C29_Witness ==
    /\ result.out = "ok"
    /\ input_data["Age"] \in { 25, 35, 45 }
    /\ input_data["no_employees"] \in DOMAIN size_mapping
    /\ result.X[ColumnOf("age_group")] = claimed_age_index(input_data["Age"])

\* C29 witness, a company size that is no label: no category on either side
C29_WitnessUnknown ==
    /\ result.out = "ok"
    /\ input_data["no_employees"] \notin DOMAIN size_mapping
    /\ corpus_row(input_data)["company_size_category"] = NaN
====
